---- MODULE Spec2Model ----
(***************************************************************************)
(* Model of year_in_review.py: the Viaduct GraphQL client, the four        *)
(* fetchers, the aggregators, the derived-feature calculators and main().  *)
(*                                                                         *)
(* A Python str is a sequence of code points, so that comparison and       *)
(* sorting are the lexicographic ones Python performs.  A JSON value is a  *)
(* record tagged by its kind; a JSON object carries a function whose       *)
(* domain is the set of keys that are present, so an absent key and a key  *)
(* holding null are different things, as they are for dict.get.            *)
(***************************************************************************)
EXTENDS Integers, Sequences, FiniteSets, TLC

(***************************************************************************)
(* Bounds of the model.                                                    *)
(***************************************************************************)
MaxPage == 2        \* trip events on a page, date-filter scenario
MaxEdges == 3       \* trip events on a page, aggregation scenario
MaxNights == 2      \* largest numberOfNights of a stay
MaxReviews == 3     \* review edges in a response
MaxWishlists == 6   \* wishlist edges in a response

(***************************************************************************)
(* Python strings.                                                         *)
(***************************************************************************)
RECURSIVE StrLt(_, _)
StrLt(a, b) ==
    IF a = <<>> THEN b # <<>>
    ELSE IF b = <<>> THEN FALSE
    ELSE IF a[1] # b[1] THEN a[1] < b[1]
    ELSE StrLt(Tail(a), Tail(b))

StrLeq(a, b) == a = b \/ StrLt(a, b)

RECURSIVE IntToStr(_)
IntToStr(n) ==
    IF n < 10 THEN <<48 + n>> ELSE IntToStr(n \div 10) \o <<48 + (n % 10)>>

Pad2(n) == <<48 + (n \div 10), 48 + (n % 10)>>

\* "-01-01T00:00:00Z"
YearBoundSuffix == <<45, 48, 49, 45, 48, 49, 84, 48, 48, 58, 48, 48, 58, 48, 48, 90>>

\* "<y>-<mo>-<d>T<h>:<mi>:<s>Z", the format of the upstream timestamps
IsoZ(y, mo, d, h, mi, s) ==
    IntToStr(y) \o <<45>> \o Pad2(mo) \o <<45>> \o Pad2(d) \o <<84>>
        \o Pad2(h) \o <<58>> \o Pad2(mi) \o <<58>> \o Pad2(s) \o <<90>>

STAY == <<83, 84, 65, 89>>                                   \* "STAY"
EXPERIENCE == <<69, 88, 80, 69, 82, 73, 69, 78, 67, 69>>     \* "EXPERIENCE"
FLIGHT == <<70, 76, 73, 71, 72, 84>>                         \* "FLIGHT"
Unknown == <<85, 110, 107, 110, 111, 119, 110>>              \* "Unknown"
Paris == <<80, 97, 114, 105, 115>>                           \* "Paris"
Lyon == <<76, 121, 111, 110>>                                \* "Lyon"
Oslo == <<79, 115, 108, 111>>                                \* "Oslo"
France == <<70, 114, 97, 110, 99, 101>>                      \* "France"
Norway == <<78, 111, 114, 119, 97, 121>>                     \* "Norway"

(***************************************************************************)
(* JSON values, and the outcome of an expression that raised.              *)
(***************************************************************************)
None == [k |-> "null"]
JStr(s) == [k |-> "str", s |-> s]
JInt(n) == [k |-> "int", n |-> n]
JBool(b) == [k |-> "bool", b |-> b]
JList(l) == [k |-> "list", l |-> l]
JObj(f) == [k |-> "obj", f |-> f]
EmptyObj == JObj(<<>>)
EmptyList == JList(<<>>)
Raised == [k |-> "raise"]

IsRaised(v) == v.k = "raise"

\* bool(v)
Truthy(v) ==
    CASE v.k = "null" -> FALSE
      [] v.k = "str" -> v.s # <<>>
      [] v.k = "int" -> v.n # 0
      [] v.k = "bool" -> v.b
      [] v.k = "list" -> v.l # <<>>
      [] v.k = "obj" -> DOMAIN v.f # {}
      [] OTHER -> FALSE

\* d.get(key, default): AttributeError when d is not a dict
Get(d, key, default) ==
    IF d.k # "obj" THEN Raised
    ELSE IF key \in DOMAIN d.f THEN d.f[key]
    ELSE default

\* d[key] = v
SetItem(d, key, v) == JObj((key :> v) @@ d.f)

\* a or b
Or(a, b) == IF Truthy(a) THEN a ELSE b

(***************************************************************************)
(* Construction of upstream payloads.  Absent marks a key that the         *)
(* payload does not carry.                                                 *)
(***************************************************************************)
Absent == [k |-> "absent"]
Field(key, v) == IF v = Absent THEN <<>> ELSE (key :> v)

(***************************************************************************)
(* ViaductGraphQLClient.execute_query.  A response is what the POST gave:  *)
(* the transport outcome, the HTTP status and the parsed JSON body.        *)
(***************************************************************************)
HttpResponse(status, body) == [transport |-> "ok", status |-> status, body |-> body]
TimedOut == [transport |-> "timeout", status |-> 0, body |-> None]

\* "errors" in data
HasErrors(data) == data.k = "obj" /\ "errors" \in DOMAIN data.f

\* the value returned, or Raised: requests raises on a timeout, the client
\* raises RuntimeError on a status other than 200, and `"errors" in data`
\* raises TypeError when the body is not a container
\* execute_query without the status check
execute_query_any_status(response) ==
    IF response.transport # "ok" THEN Raised
    ELSE IF response.body.k \notin {"obj", "list", "str"} THEN Raised
    ELSE response.body

execute_query(response) ==
    IF response.transport # "ok" THEN Raised
    ELSE IF response.status # 200 THEN Raised
    ELSE IF response.body.k \notin {"obj", "list", "str"} THEN Raised
    ELSE response.body

(***************************************************************************)
(* Iteration `for edge in edges` of the fetcher and the aggregators: the   *)
(* elements of a list, nothing for an empty container, and Raised for      *)
(* every other value (not iterable, or iterating over elements that have   *)
(* no .get, which is the first thing every loop body calls).               *)
(***************************************************************************)
Iterate(v) ==
    CASE v.k = "list" -> JList(v.l)
      [] v.k = "str" /\ v.s = <<>> -> EmptyList
      [] v.k = "obj" /\ DOMAIN v.f = {} -> EmptyList
      [] OTHER -> Raised

(***************************************************************************)
(* YearInReviewGenerator.fetch_trip_data: the client-side date filter.     *)
(***************************************************************************)
start_date_of(year) == IntToStr(year) \o YearBoundSuffix
end_date_of(year) == IntToStr(year + 1) \o YearBoundSuffix

\* start_date <= starts_at <= end_date
InDateRange(start_date, starts_at, end_date) ==
    StrLeq(start_date, starts_at) /\ StrLeq(starts_at, end_date)

RECURSIVE filter_edges(_, _, _)
filter_edges(edges, start_date, end_date) ==
    IF edges = <<>> THEN EmptyList
    ELSE LET edge == Head(edges)
             node == Get(edge, "node", EmptyObj)
             starts_at == Get(node, "startsAt", None)
             rest == filter_edges(Tail(edges), start_date, end_date)
         IN  IF IsRaised(starts_at) THEN Raised
             ELSE IF Truthy(starts_at) /\ starts_at.k # "str" THEN Raised
             ELSE IF IsRaised(rest) THEN Raised
             ELSE IF Truthy(starts_at)
                     /\ InDateRange(start_date, starts_at.s, end_date)
                  THEN JList(<<edge>> \o rest.l)
             ELSE rest

fetch_trip_data(response, start_date, end_date) ==
    LET result == execute_query(response)
        data == Get(result, "data", EmptyObj)
        trips == Get(data, "trips", EmptyObj)
        tripEvents == Get(trips, "tripEvents", None)
    IN  IF IsRaised(result) \/ IsRaised(tripEvents) THEN Raised
        ELSE IF ~Truthy(tripEvents) THEN result
        ELSE LET edges == Get(tripEvents, "edges", EmptyList)
                 items == IF IsRaised(edges) THEN Raised ELSE Iterate(edges)
                 filtered_edges ==
                     IF IsRaised(items) THEN Raised
                     ELSE filter_edges(items.l, start_date, end_date)
             IN  IF IsRaised(filtered_edges) THEN Raised
                 ELSE SetItem(result, "data",
                        SetItem(data, "trips",
                          SetItem(trips, "tripEvents",
                            SetItem(tripEvents, "edges", filtered_edges))))

\* the edges the aggregators read from the trip payload
trip_edges(data) ==
    Get(Get(Get(Get(data, "data", EmptyObj), "trips", EmptyObj),
            "tripEvents", EmptyObj), "edges", EmptyList)

(***************************************************************************)
(* sorted(list(s)) of a set of strings                                     *)
(***************************************************************************)
RECURSIVE sorted(_)
sorted(S) ==
    IF S = {} THEN <<>>
    ELSE LET m == CHOOSE x \in S : \A y \in S : StrLeq(x.s, y.s)
         IN  <<m>> \o sorted(S \ {m})

(***************************************************************************)
(* YearInReviewGenerator.process_trip_data                                 *)
(***************************************************************************)
\* Optional[TripDetail]: <<>> is None, <<d>> is the record d
TripDetail(location, nights, start_date) ==
    [location |-> location, nights |-> nights, start_date |-> start_date]

\* the locals of the loop before its first iteration
trip_locals ==
    [k |-> "locals", total_nights |-> 0, countries |-> {}, cities |-> {},
     longest_trip |-> <<>>, max_nights |-> 0]

\* the comparison with >= in place of >
is_longer_or_equal(nights, max_nights) == nights >= max_nights

\* nights > max_nights
is_longer(nights, max_nights) == nights > max_nights

\* one iteration of the loop over the trip edges
trip_step(edge, acc) ==
    LET node == Get(edge, "node", EmptyObj)
        product_type == Get(node, "productType", None)
        stay == Get(node, "stayReservation", EmptyObj)
        nights == Get(stay, "numberOfNights", JInt(0))
        listing == Get(stay, "listing", EmptyObj)
        location == Get(Get(Get(listing, "supplyListing", EmptyObj),
                            "location", EmptyObj), "defaultAddress", EmptyObj)
        country == Get(location, "country", None)
        city == Get(location, "locality", None)
        start_date == Get(stay, "startDate", JStr(<<>>))
    IN  IF IsRaised(product_type) THEN Raised
        ELSE IF product_type # JStr(STAY) THEN acc
        ELSE IF IsRaised(nights) \/ nights.k # "int" THEN Raised
        ELSE IF IsRaised(country) \/ IsRaised(city) THEN Raised
        ELSE [k |-> "locals",
              total_nights |-> acc.total_nights + nights.n,
              countries |-> IF Truthy(country) THEN acc.countries \cup {country}
                            ELSE acc.countries,
              cities |-> IF Truthy(city) THEN acc.cities \cup {city}
                         ELSE acc.cities,
              longest_trip |->
                  IF is_longer(nights.n, acc.max_nights)
                  THEN <<TripDetail(Or(Or(city, country), JStr(Unknown)),
                                    nights.n, start_date)>>
                  ELSE acc.longest_trip,
              max_nights |-> IF is_longer(nights.n, acc.max_nights)
                             THEN nights.n ELSE acc.max_nights]

RECURSIVE trip_loop(_, _)
trip_loop(edges, acc) ==
    IF edges = <<>> THEN acc
    ELSE LET next == trip_step(Head(edges), acc)
         IN  IF IsRaised(next) THEN Raised ELSE trip_loop(Tail(edges), next)

\* counting the stays only
count_stays_only(items) ==
    Cardinality({i \in 1..Len(items) :
        Get(Get(items[i], "node", EmptyObj), "productType", None) = JStr(STAY)})

\* len(edges) of process_trip_data
count_trips(items) == Len(items)

process_trip_data(data) ==
    LET edges == trip_edges(data)
        items == IF IsRaised(edges) THEN Raised ELSE Iterate(edges)
        acc == IF IsRaised(items) THEN Raised ELSE trip_loop(items.l, trip_locals)
    IN  IF IsRaised(acc) THEN Raised
        ELSE [k |-> "TripSummary",
              total_trips |-> count_trips(items.l),
              total_nights |-> acc.total_nights,
              countries_visited |-> sorted(acc.countries),
              cities_visited |-> sorted(acc.cities),
              longest_trip |-> acc.longest_trip,
              destinations |-> sorted(acc.cities)]

(***************************************************************************)
(* YearInReviewGenerator.process_experience_data                           *)
(***************************************************************************)
experience_locals == [k |-> "locals", cities |-> {}, count |-> 0]

\* every event that is not a stay counted as an experience
experience_step_not_stay(edge, acc) ==
    LET node == Get(edge, "node", EmptyObj)
        product_type == Get(node, "productType", None)
    IN  IF IsRaised(product_type) THEN Raised
        ELSE IF product_type = JStr(STAY) THEN acc
        ELSE [k |-> "locals", cities |-> acc.cities, count |-> acc.count + 1]

experience_step(edge, acc) ==
    LET node == Get(edge, "node", EmptyObj)
        product_type == Get(node, "productType", None)
        exp_profile == Get(node, "experienceGuestProfile", EmptyObj)
        template == Get(exp_profile, "template", EmptyObj)
        city == Get(template, "cityNative", None)
    IN  IF IsRaised(product_type) THEN Raised
        ELSE IF product_type # JStr(EXPERIENCE) THEN acc
        ELSE IF IsRaised(city) THEN Raised
        ELSE [k |-> "locals",
              cities |-> IF Truthy(city) THEN acc.cities \cup {city}
                         ELSE acc.cities,
              count |-> acc.count + 1]

RECURSIVE experience_loop(_, _)
experience_loop(edges, acc) ==
    IF edges = <<>> THEN acc
    ELSE LET next == experience_step(Head(edges), acc)
         IN  IF IsRaised(next) THEN Raised
             ELSE experience_loop(Tail(edges), next)

process_experience_data(data) ==
    LET edges == trip_edges(data)
        items == IF IsRaised(edges) THEN Raised ELSE Iterate(edges)
        acc == IF IsRaised(items) THEN Raised
               ELSE experience_loop(items.l, experience_locals)
    IN  IF IsRaised(acc) THEN Raised
        ELSE [k |-> "ExperienceSummary",
              total_experiences |-> acc.count,
              categories |-> EmptyObj,
              cities |-> sorted(acc.cities)]

(***************************************************************************)
(* Python floats that the program computes are kept exact, as fractions.   *)
(***************************************************************************)
Float(num, den) == [num |-> num, den |-> den]
FEq(a, b) == a.num * b.den = b.num * a.den
FLeq(a, b) == a.num * b.den <= b.num * a.den
FLt(a, b) == a.num * b.den < b.num * a.den
Zero == Float(0, 1)

\* round(x, 2) of a non-negative x: to the nearest hundredth, ties to even
round2(x) ==
    LET scaled == x.num * 100
        q == scaled \div x.den
        r == scaled % x.den
    IN  IF 2 * r > x.den \/ (2 * r = x.den /\ q % 2 = 1)
        THEN Float(q + 1, 100)
        ELSE Float(q, 100)

(***************************************************************************)
(* YearInReviewGenerator.process_review_data                               *)
(***************************************************************************)
review_edges(data) ==
    Get(Get(Get(Get(data, "data", EmptyObj), "node", EmptyObj),
            "reviews", EmptyObj), "edges", EmptyList)

review_locals == [k |-> "locals", total_rating |-> 0, five_stars |-> 0]

review_step(edge, acc) ==
    LET node == Get(edge, "node", EmptyObj)
        review == Get(node, "review", EmptyObj)
        rating == Get(review, "rating", JInt(0))
    IN  IF IsRaised(rating) \/ rating.k # "int" THEN Raised
        ELSE [k |-> "locals",
              total_rating |-> acc.total_rating + rating.n,
              five_stars |-> IF rating.n = 5 THEN acc.five_stars + 1
                             ELSE acc.five_stars]

RECURSIVE review_loop(_, _)
review_loop(edges, acc) ==
    IF edges = <<>> THEN acc
    ELSE LET next == review_step(Head(edges), acc)
         IN  IF IsRaised(next) THEN Raised ELSE review_loop(Tail(edges), next)

\* floor division in place of true division
average_rating_floor(total_rating, count) ==
    IF count > 0 THEN Float(total_rating \div count, 1) ELSE Zero

\* total_rating / len(edges) if edges else 0.0
average_rating(total_rating, count) ==
    IF count > 0 THEN Float(total_rating, count) ELSE Zero

process_review_data(data) ==
    LET edges == review_edges(data)
        items == IF IsRaised(edges) THEN Raised ELSE Iterate(edges)
        acc == IF IsRaised(items) THEN Raised
               ELSE review_loop(items.l, review_locals)
    IN  IF IsRaised(edges) THEN Raised
        ELSE IF ~Truthy(edges)
             THEN [k |-> "ReviewSummary", reviews_written |-> 0,
                   average_rating_given |-> Zero, five_star_reviews |-> 0]
        ELSE IF IsRaised(acc) THEN Raised
        ELSE [k |-> "ReviewSummary",
              reviews_written |-> Len(items.l),
              average_rating_given |->
                  average_rating(acc.total_rating, Len(items.l)),
              five_star_reviews |-> acc.five_stars]

(***************************************************************************)
(* YearInReviewGenerator.process_wishlist_data                             *)
(***************************************************************************)
TopDestinations == 5

wishlist_edges(data) ==
    Get(Get(Get(Get(data, "data", EmptyObj), "viewer", EmptyObj),
            "wishlists", EmptyObj), "edges", EmptyList)

wishlist_locals == [k |-> "locals", total_items |-> 0, wishlist_names |-> <<>>]

wishlist_step(edge, acc) ==
    LET node == Get(edge, "node", EmptyObj)
        counts == Get(node, "productCounts", EmptyObj)
        stays == Get(counts, "staysCount", JInt(0))
        experiences == Get(counts, "experiencesCount", JInt(0))
        name == Get(node, "name", JStr(<<>>))
    IN  IF IsRaised(stays) \/ stays.k # "int" THEN Raised
        ELSE IF experiences.k # "int" THEN Raised
        ELSE [k |-> "locals",
              total_items |-> acc.total_items + stays.n + experiences.n,
              wishlist_names |-> IF Truthy(name)
                                 THEN Append(acc.wishlist_names, name)
                                 ELSE acc.wishlist_names]

RECURSIVE wishlist_loop(_, _)
wishlist_loop(edges, acc) ==
    IF edges = <<>> THEN acc
    ELSE LET next == wishlist_step(Head(edges), acc)
         IN  IF IsRaised(next) THEN Raised
             ELSE wishlist_loop(Tail(edges), next)

\* wishlist_names[-5:]
top_slice_last(names) ==
    SubSeq(names, IF Len(names) < TopDestinations THEN 1
                  ELSE Len(names) - TopDestinations + 1, Len(names))

\* wishlist_names[:5]
top_slice(names) ==
    SubSeq(names, 1, IF Len(names) < TopDestinations THEN Len(names)
                     ELSE TopDestinations)

process_wishlist_data(data) ==
    LET edges == wishlist_edges(data)
        items == IF IsRaised(edges) THEN Raised ELSE Iterate(edges)
        acc == IF IsRaised(items) THEN Raised
               ELSE wishlist_loop(items.l, wishlist_locals)
    IN  IF IsRaised(acc) THEN Raised
        ELSE [k |-> "WishlistSummary",
              total_wishlists |-> Len(items.l),
              total_items_saved |-> acc.total_items,
              top_destinations |-> top_slice(acc.wishlist_names)]

(***************************************************************************)
(* YearInReviewGenerator.calculate_distance_traveled                       *)
(***************************************************************************)
KmPerCity == 500
KmPerExtraCountry == 1000

\* the early return taken for no city only
calculate_distance_one_city(trips) ==
    LET num_cities == Len(trips.cities_visited)
        num_countries == Len(trips.countries_visited)
        base == num_cities * KmPerCity
    IN  IF num_cities < 1 THEN Zero
        ELSE round2(Float(IF num_countries > 1
                          THEN base + (num_countries - 1) * KmPerExtraCountry
                          ELSE base, 1))

calculate_distance_traveled(trips) ==
    LET num_cities == Len(trips.cities_visited)
        num_countries == Len(trips.countries_visited)
        base == num_cities * KmPerCity
        estimated_distance ==
            IF num_countries > 1
            THEN base + (num_countries - 1) * KmPerExtraCountry
            ELSE base
    IN  IF num_cities <= 1 THEN Zero
        ELSE round2(Float(estimated_distance, 1))

(***************************************************************************)
(* YearInReviewGenerator.process_user_profile                              *)
(***************************************************************************)
IsDigit(c) == 48 <= c /\ c <= 57
Num2(s, i) == (s[i] - 48) * 10 + (s[i + 1] - 48)

DaysIn(y, mo) ==
    IF mo = 2
    THEN (IF y % 4 = 0 /\ (y % 100 # 0 \/ y % 400 = 0) THEN 29 ELSE 28)
    ELSE IF mo \in {4, 6, 9, 11} THEN 30 ELSE 31

IsDate(s) ==
    /\ \A i \in {1, 2, 3, 4, 6, 7, 9, 10} : IsDigit(s[i])
    /\ s[5] = 45 /\ s[8] = 45
    /\ Num2(s, 1) * 100 + Num2(s, 3) >= 1
    /\ Num2(s, 6) \in 1..12
    /\ Num2(s, 9) \in 1..DaysIn(Num2(s, 1) * 100 + Num2(s, 3), Num2(s, 6))

IsTime(s) ==
    /\ \A i \in {12, 13, 15, 16, 18, 19} : IsDigit(s[i])
    /\ s[11] = 84 /\ s[14] = 58 /\ s[17] = 58
    /\ Num2(s, 12) < 24 /\ Num2(s, 15) < 60 /\ Num2(s, 18) < 60

\* datetime.fromisoformat(created_at.replace("Z", "+00:00")).year for the
\* layouts "YYYY-MM-DD", "YYYY-MM-DDTHH:MM:SS" and "YYYY-MM-DDTHH:MM:SSZ";
\* -1 stands for the ValueError the code swallows
iso_year(s) ==
    IF \/ Len(s) = 10 /\ IsDate(s)
       \/ Len(s) = 19 /\ IsDate(s) /\ IsTime(s)
       \/ Len(s) = 20 /\ IsDate(s) /\ IsTime(s) /\ s[20] = 90
    THEN Num2(s, 1) * 100 + Num2(s, 3)
    ELSE -1

process_user_profile(data, year) ==
    LET user_node == Get(Get(data, "data", EmptyObj), "node", EmptyObj)
        created_at == Get(user_node, "createdAt", JStr(<<>>))
        parsed == IF created_at.k = "str" THEN iso_year(created_at.s) ELSE -1
    IN  IF IsRaised(created_at) THEN Raised
        ELSE [k |-> "UserProfileSummary",
              member_since |-> created_at,
              years_as_member |-> IF Truthy(created_at) /\ parsed # -1
                                  THEN year - parsed ELSE 0,
              is_superhost |-> Get(user_node, "isSuperHost", JBool(FALSE)),
              is_highly_rated |-> Get(user_node, "highlyRated", JBool(FALSE)),
              positive_review_rate |-> Zero]

(***************************************************************************)
(* YearInReviewGenerator.calculate_travel_personality                      *)
(***************************************************************************)
\* an average of exactly 7 nights taken as long
personality_of_inclusive(avg_nights) ==
    IF FLeq(Float(7, 1), avg_nights)
    THEN [personality_type |-> "The Explorer", base |-> "Extended stays"]
    ELSE IF FLt(avg_nights, Float(3, 1))
    THEN [personality_type |-> "The Adventurer", base |-> "Quick trips"]
    ELSE [personality_type |-> "The Balanced Traveler", base |-> "Balanced stays"]

personality_of(avg_nights) ==
    IF FLt(Float(7, 1), avg_nights)
    THEN [personality_type |-> "The Explorer", base |-> "Extended stays"]
    ELSE IF FLt(avg_nights, Float(3, 1))
    THEN [personality_type |-> "The Adventurer", base |-> "Quick trips"]
    ELSE [personality_type |-> "The Balanced Traveler", base |-> "Balanced stays"]

\* exp_per_trip > 1, looked at only when there is an experience; below
\* first with one experience per trip taken as enough
is_experience_seeker_at_one(trips, experiences) ==
    /\ experiences.total_experiences > 0
    /\ FLeq(Float(1, 1), Float(experiences.total_experiences, trips.total_trips))

is_experience_seeker(trips, experiences) ==
    /\ experiences.total_experiences > 0
    /\ FLt(Float(1, 1), Float(experiences.total_experiences, trips.total_trips))

\* first with one review per trip taken as too few
is_community_contributor_strict(trips, reviews) ==
    reviews.reviews_written > trips.total_trips

is_community_contributor(trips, reviews) ==
    reviews.reviews_written >= trips.total_trips

\* average_rating_given >= 4.5
has_positive_outlook(reviews) ==
    FLeq(Float(9, 2), reviews.average_rating_given)

\* len(countries_visited) > total_trips * 0.8
is_country_hopper(trips) ==
    FLt(Float(trips.total_trips * 8, 10), Float(Len(trips.countries_visited), 1))

\* the body of calculate_travel_personality once total_trips is not 0
personality_for(trips, experiences, reviews) ==
    LET avg_nights == Float(trips.total_nights, trips.total_trips)
        p == personality_of(avg_nights)
        t1 == <<p.base>>
        t2 == IF is_experience_seeker(trips, experiences)
              THEN Append(t1, "Experience seeker") ELSE t1
        t3 == IF is_community_contributor(trips, reviews)
              THEN Append(t2, "Community contributor") ELSE t2
        t4 == IF has_positive_outlook(reviews)
              THEN Append(t3, "Positive outlook") ELSE t3
        t5 == IF is_country_hopper(trips)
              THEN Append(t4, "Country hopper") ELSE t4
    IN  [personality_type |-> p.personality_type, traits |-> t5]

\* Optional[TravelPersonality]: <<>> is None; below first with the early
\* return taken on the nights
calculate_travel_personality_no_nights(trips, experiences, reviews) ==
    IF trips.total_nights = 0 THEN <<>>
    ELSE <<personality_for(trips, experiences, reviews)>>

calculate_travel_personality(trips, experiences, reviews) ==
    IF trips.total_trips = 0 THEN <<>>
    ELSE <<personality_for(trips, experiences, reviews)>>

(***************************************************************************)
(* YearInReviewGenerator.generate_highlights: each line is kept as the     *)
(* name of the card it reports and the numbers interpolated into it.       *)
(***************************************************************************)
\* first with an empty card standing for a line that is left out
Line_placeholder(cond, what, a, b) ==
    IF cond THEN <<[line |-> what, a |-> a, b |-> b]>>
    ELSE <<[line |-> "none", a |-> 0, b |-> 0]>>

Line(cond, what, a, b) ==
    IF cond THEN <<[line |-> what, a |-> a, b |-> b]>> ELSE <<>>

generate_highlights(trips, experiences, reviews, wishlists) ==
    Line(trips.total_trips > 0, "explored",
         Len(trips.countries_visited), Len(trips.cities_visited))
    \o Line(trips.total_nights > 0, "nights", trips.total_nights, 0)
    \o Line(trips.longest_trip # <<>>, "longest",
            IF trips.longest_trip # <<>> THEN trips.longest_trip[1].nights ELSE 0, 0)
    \o Line(experiences.total_experiences > 0, "experiences",
            experiences.total_experiences, 0)
    \o Line(reviews.reviews_written > 0, "reviews",
            reviews.reviews_written, reviews.five_star_reviews)
    \o Line(wishlists.total_items_saved > 0, "wishlists",
            wishlists.total_items_saved, 0)

(***************************************************************************)
(* YearInReviewGenerator.generate, after the four fetches: the aggregation *)
(* and the derived features.  Raised when any of them raises.              *)
(***************************************************************************)
summarize(year, user_profile_data, trip_data, review_data, wishlist_data) ==
    LET user_profile == process_user_profile(user_profile_data, year)
        trips == process_trip_data(trip_data)
        experiences == process_experience_data(trip_data)
        reviews == process_review_data(review_data)
        wishlists == process_wishlist_data(wishlist_data)
    IN  IF \/ IsRaised(user_profile) \/ IsRaised(trips) \/ IsRaised(experiences)
           \/ IsRaised(reviews) \/ IsRaised(wishlists)
        THEN Raised
        ELSE [k |-> "YearInReviewSummary",
              year |-> year,
              user_profile |-> user_profile,
              trips |-> trips,
              experiences |-> experiences,
              reviews |-> reviews,
              wishlists |-> wishlists,
              community |-> [hosts_connected |-> Len(trips.destinations),
                             messages_exchanged |-> 0],
              travel_personality |->
                  calculate_travel_personality(trips, experiences, reviews),
              total_distance_km |-> calculate_distance_traveled(trips),
              highlights |->
                  generate_highlights(trips, experiences, reviews, wishlists)]

(***************************************************************************)
(* The run of main().                                                      *)
(*   argc               len(sys.argv)                                      *)
(*   year               the target year                                    *)
(*   upstream           what the endpoint answers to each of the queries   *)
(*   requests           the queries posted so far, in order                *)
(*   *_data             the locals of generate() holding the fetched data  *)
(*   summary            the YearInReviewSummary once generate() returned   *)
(*   stdout             the sections printed so far                        *)
(*   exit_code          -1 while the process runs                          *)
(***************************************************************************)
VARIABLES pc, argc, year, upstream, requests,
          user_profile_data, trip_data, review_data, wishlist_data,
          summary, stdout, exit_code

vars == <<pc, argc, year, upstream, requests,
          user_profile_data, trip_data, review_data, wishlist_data,
          summary, stdout, exit_code>>

FetchOrder == <<"profile", "trips", "reviews", "wishlists">>

\* the warning execute_query prints for a body that carries "errors"
Logged(out, data) == IF HasErrors(data) THEN Append(out, "warning") ELSE out

main_usage ==
    /\ pc = "main"
    /\ argc < 2
    /\ stdout' = Append(stdout, "usage")
    /\ exit_code' = 1
    /\ pc' = "exited"
    /\ UNCHANGED <<argc, year, upstream, requests, user_profile_data,
                   trip_data, review_data, wishlist_data, summary>>

main_start ==
    /\ pc = "main"
    /\ argc >= 2
    /\ stdout' = Append(stdout, "banner")
    /\ pc' = "fetch_user_profile"
    /\ UNCHANGED <<argc, year, upstream, requests, user_profile_data,
                   trip_data, review_data, wishlist_data, summary, exit_code>>

generate_fetch_user_profile ==
    /\ pc = "fetch_user_profile"
    /\ requests' = Append(requests, "profile")
    /\ LET result == execute_query(upstream.profile)
       IN  IF IsRaised(result)
           THEN /\ pc' = "except"
                /\ UNCHANGED <<user_profile_data, stdout>>
           ELSE /\ pc' = "fetch_trip_data"
                /\ user_profile_data' = result
                /\ stdout' = Logged(stdout, result)
    /\ UNCHANGED <<argc, year, upstream, trip_data, review_data,
                   wishlist_data, summary, exit_code>>

generate_fetch_trip_data ==
    /\ pc = "fetch_trip_data"
    /\ requests' = Append(requests, "trips")
    /\ LET result == fetch_trip_data(upstream.trips, start_date_of(year),
                                     end_date_of(year))
       IN  IF IsRaised(result)
           THEN /\ pc' = "except"
                /\ trip_data' = trip_data
                /\ stdout' = IF IsRaised(execute_query(upstream.trips))
                             THEN stdout
                             ELSE Logged(stdout, upstream.trips.body)
           ELSE /\ pc' = "fetch_review_data"
                /\ trip_data' = result
                /\ stdout' = Logged(stdout, result)
    /\ UNCHANGED <<argc, year, upstream, user_profile_data, review_data,
                   wishlist_data, summary, exit_code>>

generate_fetch_review_data ==
    /\ pc = "fetch_review_data"
    /\ requests' = Append(requests, "reviews")
    /\ LET result == execute_query(upstream.reviews)
       IN  IF IsRaised(result)
           THEN /\ pc' = "except"
                /\ UNCHANGED <<review_data, stdout>>
           ELSE /\ pc' = "fetch_wishlist_data"
                /\ review_data' = result
                /\ stdout' = Logged(stdout, result)
    /\ UNCHANGED <<argc, year, upstream, user_profile_data, trip_data,
                   wishlist_data, summary, exit_code>>

generate_fetch_wishlist_data ==
    /\ pc = "fetch_wishlist_data"
    /\ requests' = Append(requests, "wishlists")
    /\ LET result == execute_query(upstream.wishlists)
       IN  IF IsRaised(result)
           THEN /\ pc' = "except"
                /\ UNCHANGED <<wishlist_data, stdout>>
           ELSE /\ pc' = "process"
                /\ wishlist_data' = result
                /\ stdout' = Logged(stdout, result)
    /\ UNCHANGED <<argc, year, upstream, user_profile_data, trip_data,
                   review_data, summary, exit_code>>

generate_process ==
    /\ pc = "process"
    /\ LET result == summarize(year, user_profile_data, trip_data,
                               review_data, wishlist_data)
       IN  IF IsRaised(result)
           THEN /\ pc' = "except"
                /\ UNCHANGED summary
           ELSE /\ pc' = "print_summary"
                /\ summary' = result
    /\ UNCHANGED <<argc, year, upstream, requests, user_profile_data,
                   trip_data, review_data, wishlist_data, stdout, exit_code>>

main_print_summary ==
    /\ pc = "print_summary"
    /\ stdout' = Append(stdout, "report")
    /\ pc' = "print_json"
    /\ UNCHANGED <<argc, year, upstream, requests, user_profile_data,
                   trip_data, review_data, wishlist_data, summary, exit_code>>

main_print_json ==
    /\ pc = "print_json"
    /\ stdout' = Append(stdout, "json")
    /\ exit_code' = 0
    /\ pc' = "exited"
    /\ UNCHANGED <<argc, year, upstream, requests, user_profile_data,
                   trip_data, review_data, wishlist_data, summary>>

main_except ==
    /\ pc = "except"
    /\ stdout' = Append(stdout, "error")
    /\ exit_code' = 1
    /\ pc' = "exited"
    /\ UNCHANGED <<argc, year, upstream, requests, user_profile_data,
                   trip_data, review_data, wishlist_data, summary>>

Next ==
    \/ main_usage
    \/ main_start
    \/ generate_fetch_user_profile
    \/ generate_fetch_trip_data
    \/ generate_fetch_review_data
    \/ generate_fetch_wishlist_data
    \/ generate_process
    \/ main_print_summary
    \/ main_print_json
    \/ main_except

(***************************************************************************)
(* Upstream payloads.                                                      *)
(***************************************************************************)
Edge(node) == JObj("node" :> node)

Address(city, country) ==
    JObj("supplyListing" :> JObj("location" :> JObj("defaultAddress" :>
        JObj(Field("locality", city) @@ Field("country", country)))))

StayNode(starts_at, nights, city, country, start_date) ==
    JObj(("productType" :> JStr(STAY))
         @@ Field("startsAt", starts_at)
         @@ ("stayReservation" :>
                JObj(Field("numberOfNights", nights)
                     @@ Field("startDate", start_date)
                     @@ ("listing" :> Address(city, country)))))

ExperienceNode(starts_at, city) ==
    JObj(("productType" :> JStr(EXPERIENCE))
         @@ Field("startsAt", starts_at)
         @@ ("experienceGuestProfile" :>
                JObj("template" :> JObj(Field("cityNative", city)))))

OtherNode(starts_at, product_type) ==
    JObj(Field("productType", product_type) @@ Field("startsAt", starts_at))

ReviewNode(rating) == JObj("review" :> JObj(Field("rating", rating)))

WishlistNode(name, stays, experiences) ==
    JObj(Field("name", name)
         @@ ("productCounts" :> JObj(Field("staysCount", stays)
                                     @@ Field("experiencesCount", experiences))))

Errors == JList(<<JObj("message" :> JStr(<<69, 114, 114>>))>>)

ProfileBody(node) == JObj("data" :> JObj("node" :> node))
TripData(edges) ==
    JObj("data" :> JObj("trips" :> JObj("tripEvents" :>
        JObj("edges" :> JList(edges)))))
TripBody(nodes) == TripData([i \in 1..Len(nodes) |-> Edge(nodes[i])])
ReviewBody(nodes) ==
    JObj("data" :> JObj("node" :> JObj("reviews" :>
        JObj("edges" :> JList([i \in 1..Len(nodes) |-> Edge(nodes[i])])))))
WishlistBody(nodes) ==
    JObj("data" :> JObj("viewer" :> JObj("wishlists" :>
        JObj("edges" :> JList([i \in 1..Len(nodes) |-> Edge(nodes[i])])))))

\* all sequences over S of length at most n
SeqUpTo(S, n) == UNION {[1..m -> S] : m \in 0..n}

\* a timestamp inside the year 2024
MidYear == JStr(IsoZ(2024, 7, 4, 12, 30, 0))

UserNode ==
    JObj([createdAt |-> JStr(IsoZ(2019, 5, 17, 8, 0, 0)),
          isSuperHost |-> JBool(FALSE), highlyRated |-> JBool(TRUE)])

GoodProfile == HttpResponse(200, ProfileBody(UserNode))
GoodTrips ==
    HttpResponse(200, TripBody(<<
        StayNode(MidYear, JInt(7), JStr(Paris), JStr(France),
                 JStr(IsoZ(2024, 7, 4, 0, 0, 0))),
        ExperienceNode(MidYear, JStr(Lyon))>>))
GoodReviews == HttpResponse(200, ReviewBody(<<ReviewNode(JInt(5)), ReviewNode(JInt(4))>>))
GoodWishlists ==
    HttpResponse(200, WishlistBody(<<WishlistNode(JStr(Oslo), JInt(2), JInt(1))>>))

GoodUpstream ==
    [profile |-> GoodProfile, trips |-> GoodTrips,
     reviews |-> GoodReviews, wishlists |-> GoodWishlists]

ServerError == HttpResponse(500, JStr(<<>>))

\* status-200 answers that report GraphQL errors: the data that came with
\* them is complete, partial, null or missing, under the root field `root`
\* of the query and the connection field `conn` below it
ErrorBodies(good, root, conn) ==
    { JObj(("errors" :> Errors) @@ good.body.f),
      JObj("errors" :> Errors),
      JObj(("errors" :> Errors) @@ ("data" :> None)),
      JObj(("errors" :> Errors) @@ ("data" :> EmptyObj)),
      JObj(("errors" :> Errors) @@ ("data" :> JObj(root :> None))),
      JObj(("errors" :> Errors) @@ ("data" :> JObj(root :> JObj(conn :> None)))),
      JObj(("errors" :> Errors) @@ ("data" :> JObj(root :> JObj(conn :>
            JObj("edges" :> None))))) }

Answers(good, root, conn) ==
    {good, ServerError, TimedOut}
    \cup {HttpResponse(200, b) : b \in ErrorBodies(good, root, conn)}

InitRun(inputs) ==
    /\ pc = "main"
    /\ requests = <<>>
    /\ user_profile_data = Absent
    /\ trip_data = Absent
    /\ review_data = Absent
    /\ wishlist_data = Absent
    /\ summary = Absent
    /\ stdout = <<>>
    /\ exit_code = -1
    /\ \/ argc = 1 /\ year = 2024 /\ upstream = GoodUpstream
       \/ argc = 4 /\ inputs

(***************************************************************************)
(* Spec: every fetch may succeed, fail, time out or report GraphQL errors. *)
(***************************************************************************)
Init ==
    InitRun(/\ year = 2024
            /\ upstream \in [profile : Answers(GoodProfile, "node", "createdAt"),
                             trips : Answers(GoodTrips, "trips", "tripEvents"),
                             reviews : Answers(GoodReviews, "node", "reviews"),
                             wishlists : Answers(GoodWishlists, "viewer", "wishlists")])

Spec == Init /\ [][Next]_vars

(***************************************************************************)
(* SpecFilter: the trip page carries events dated before, inside, at the   *)
(* bounds of and after the target year.                                    *)
(***************************************************************************)
Timestamps ==
    { IsoZ(2023, 12, 31, 23, 59, 59), IsoZ(2024, 1, 1, 0, 0, 0),
      IsoZ(2024, 7, 4, 12, 30, 0), IsoZ(2024, 12, 31, 23, 59, 59),
      IsoZ(2025, 1, 1, 0, 0, 0), IsoZ(2025, 1, 1, 0, 0, 1) }

FilterNodes ==
    {StayNode(JStr(t), JInt(1), JStr(Paris), JStr(France), JStr(t)) : t \in Timestamps}
    \cup {StayNode(Absent, JInt(1), JStr(Paris), JStr(France), Absent),
          ExperienceNode(MidYear, JStr(Lyon)),
          ExperienceNode(JStr(IsoZ(2025, 1, 1, 0, 0, 0)), JStr(Lyon))}

InitFilter ==
    InitRun(/\ year \in {2023, 2024}
            /\ \E t \in {ServerError}
                    \cup {HttpResponse(200, TripBody(p)) : p \in SeqUpTo(FilterNodes, MaxPage)} :
                  upstream = [GoodUpstream EXCEPT !.trips = t])

SpecFilter == InitFilter /\ [][Next]_vars

(***************************************************************************)
(* Properties.                                                             *)
(***************************************************************************)
Ok200(response) == response.transport = "ok" /\ response.status = 200

\* the trip edges generate() hands to the aggregators
HandedEdges == Iterate(trip_edges(trip_data)).l

StartsAt(edge) == Get(Get(edge, "node", EmptyObj), "startsAt", None)

\* starts_at lies in [<year>-01-01T00:00:00Z, <year+1>-01-01T00:00:00Z)
InHalfOpenYear(starts_at) ==
    /\ starts_at.k = "str"
    /\ StrLeq(start_date_of(year), starts_at.s)
    /\ StrLt(starts_at.s, end_date_of(year))

\* C1: after fetch_trip_data no event whose startsAt lies outside the
\* half-open range [yearStart, yearEnd) is among the edges handed to the
\* aggregators; an event dated exactly yearEnd is excluded.
C1_OutsideYearExcluded ==
    trip_data # Absent =>
        \A i \in 1..Len(HandedEdges) : InHalfOpenYear(StartsAt(HandedEdges[i]))

\* C2: a run whose four responses all have status 200 never aborts when
\* some of them carry a top-level errors field; generate() returns a summary.
C2_ErrorsNeverAbort ==
    ((\A q \in DOMAIN upstream : Ok200(upstream[q]))
      /\ (\E q \in DOMAIN upstream : HasErrors(upstream[q].body)))
    => /\ pc # "except"
       /\ (pc = "exited" => summary # Absent /\ exit_code = 0)

IsPrefix(s, t) == Len(s) <= Len(t) /\ \A i \in 1..Len(s) : s[i] = t[i]

\* C3: the fetches are issued in the order profile, trips, reviews,
\* wishlists, each at most once; after a fetch that did not return status 200
\* nothing more is fetched, nothing is aggregated, no report is printed and
\* the exit code is 1; the exit code is 0 only after four 200 responses.
C3_AbortOnFailedFetch ==
    /\ IsPrefix(requests, FetchOrder)
    /\ \A i \in 1..Len(requests) :
          ~Ok200(upstream[requests[i]]) =>
              /\ i = Len(requests)
              /\ pc \in {"except", "exited"}
              /\ summary = Absent
              /\ \A j \in 1..Len(stdout) : stdout[j] \notin {"report", "json"}
              /\ pc = "exited" => exit_code = 1
    /\ exit_code = 0 =>
          /\ requests = FetchOrder
          /\ \A q \in DOMAIN upstream : Ok200(upstream[q])

C3_Witness ==
    /\ pc = "exited"
    /\ exit_code = 1
    /\ requests = <<"profile", "trips">>
    /\ upstream.trips.status = 500


(***************************************************************************)
(* SpecTrips: the trip page carries stays, experiences and other events    *)
(* of the target year.                                                     *)
(***************************************************************************)
Day(d) == JStr(IsoZ(2024, 7, d, 0, 0, 0))

StayNodes ==
    {StayNode(MidYear, n, JStr(Paris), JStr(France), Day(1)) :
        n \in {Absent} \cup {JInt(i) : i \in 1..MaxNights}}
    \cup {StayNode(MidYear, JInt(MaxNights), JStr(Oslo), JStr(Norway), Day(2)),
          StayNode(MidYear, JInt(MaxNights), JStr(Lyon), JStr(France), Day(3)),
          StayNode(MidYear, JInt(1), Absent, JStr(France), Absent)}

ExperienceNodes == {ExperienceNode(MidYear, JStr(Lyon))}

OtherNodes == {OtherNode(MidYear, Absent), OtherNode(MidYear, JStr(FLIGHT))}

TripNodes == StayNodes \cup ExperienceNodes \cup OtherNodes

InitTrips ==
    InitRun(/\ year = 2024
            /\ \E t \in {ServerError}
                    \cup {HttpResponse(200, TripBody(p)) : p \in SeqUpTo(TripNodes, MaxEdges)} :
                  upstream = [GoodUpstream EXCEPT !.trips = t])

SpecTrips == InitTrips /\ [][Next]_vars

ProductType(edge) == Get(Get(edge, "node", EmptyObj), "productType", None)
IsStay(edge) == ProductType(edge) = JStr(STAY)
IsExperience(edge) == ProductType(edge) = JStr(EXPERIENCE)
StayOf(edge) == Get(Get(edge, "node", EmptyObj), "stayReservation", EmptyObj)
\* numberOfNights, a missing one counting as 0
NightsOf(edge) == Get(StayOf(edge), "numberOfNights", JInt(0)).n
Stays(edges) == {i \in 1..Len(edges) : IsStay(edges[i])}
MaxStayNights(edges) ==
    CHOOSE m \in {NightsOf(edges[i]) : i \in Stays(edges)} :
        \A i \in Stays(edges) : NightsOf(edges[i]) <= m

\* C4: longest_trip is absent iff the edges hold no STAY event, and when
\* present its nights are the maximum numberOfNights over the STAY events.
C4_LongestTripIffStay ==
    summary # Absent =>
        /\ summary.trips.longest_trip = <<>> <=> Stays(HandedEdges) = {}
        /\ summary.trips.longest_trip # <<>> =>
              summary.trips.longest_trip[1].nights = MaxStayNights(HandedEdges)

AddressOf(edge) ==
    Get(Get(Get(Get(StayOf(edge), "listing", EmptyObj), "supplyListing", EmptyObj),
            "location", EmptyObj), "defaultAddress", EmptyObj)

\* the first stay, in the order of the edges, that has the maximum nights
FirstLongest(edges) ==
    CHOOSE i \in Stays(edges) :
        /\ NightsOf(edges[i]) = MaxStayNights(edges)
        /\ \A j \in Stays(edges) : NightsOf(edges[j]) = MaxStayNights(edges) => i <= j

\* the city of a stay, else its country, else "Unknown"
PlaceOf(edge) ==
    LET address == AddressOf(edge).f
    IN  IF "locality" \in DOMAIN address /\ Truthy(address["locality"])
        THEN address["locality"]
        ELSE IF "country" \in DOMAIN address /\ Truthy(address["country"])
        THEN address["country"]
        ELSE JStr(Unknown)

LongestAfter(edges, n) == trip_loop(SubSeq(edges, 1, n), trip_locals).longest_trip

C7_TotalTripsDominates ==
    summary # Absent =>
        /\ summary.trips.total_trips = Len(HandedEdges)
        /\ summary.trips.total_trips >= Cardinality(Stays(HandedEdges))
        /\ summary.trips.total_trips >= summary.experiences.total_experiences

C7_Witness ==
    /\ summary # Absent
    /\ Cardinality(Stays(HandedEdges)) > 0
    /\ summary.experiences.total_experiences > 0
    /\ summary.trips.total_nights > 0
    /\ summary.trips.total_trips = MaxEdges

Without(edges, p) == SubSeq(edges, 1, p - 1) \o SubSeq(edges, p + 1, Len(edges))

\* C8: an event whose productType is neither STAY nor EXPERIENCE (or is
\* missing) adds exactly 1 to total_trips and changes nothing else of the
\* trip summary and nothing of the experience summary: the summaries of the
\* edges are those of the edges without that event, total_trips apart.
C8_OtherEventOnlyCounted ==
    summary # Absent =>
        \A p \in 1..Len(HandedEdges) :
            (~IsStay(HandedEdges[p]) /\ ~IsExperience(HandedEdges[p])) =>
                LET rest == TripData(Without(HandedEdges, p))
                    trips == process_trip_data(rest)
                IN  /\ summary.trips =
                          [trips EXCEPT !.total_trips = trips.total_trips + 1]
                    /\ summary.experiences = process_experience_data(rest)

C8_Witness ==
    /\ summary # Absent
    /\ \E p \in 1..Len(HandedEdges) :
          /\ ~IsStay(HandedEdges[p]) /\ ~IsExperience(HandedEdges[p])
          /\ ProductType(HandedEdges[p]) = None
    /\ summary.trips.longest_trip # <<>>
    /\ summary.experiences.total_experiences > 0


(***************************************************************************)
(* The distance estimate.                                                  *)
(***************************************************************************)
MaxPlaces == 4

Places(n) == [i \in 1..n |-> JStr(<<64 + i>>)]

\* calculate_distance_traveled of a trip summary with n cities, c countries
DistanceFor(n, c) ==
    calculate_distance_traveled(
        [k |-> "TripSummary", total_trips |-> n, total_nights |-> n,
         countries_visited |-> Places(c), cities_visited |-> Places(n),
         longest_trip |-> <<>>, destinations |-> Places(n)])

\* C9: the distance is 0.0 for 0 or 1 distinct cities whatever the number of
\* countries, otherwise 500 per city plus 1000 per country beyond the first;
\* it never decreases when a city or a country is added.
C9_DistanceEstimate ==
    summary # Absent =>
        LET n == Len(summary.trips.cities_visited)
            c == Len(summary.trips.countries_visited)
            d == summary.total_distance_km
        IN  /\ n <= 1 => d = Zero
            /\ n > 1 => FEq(d, Float(500 * n + (IF c > 1 THEN 1000 * (c - 1) ELSE 0), 1))
            /\ \A a, b \in 0..MaxPlaces :
                  /\ a <= 1 => DistanceFor(a, b) = Zero
                  /\ FLeq(DistanceFor(a, b), DistanceFor(a + 1, b))
                  /\ FLeq(DistanceFor(a, b), DistanceFor(a, b + 1))

C9_Witness ==
    /\ summary # Absent
    /\ Len(summary.trips.cities_visited) = 3
    /\ Len(summary.trips.countries_visited) = 2
    /\ FEq(summary.total_distance_km, Float(2500, 1))

(***************************************************************************)
(* SpecReviews: the review page carries rated and unrated reviews.         *)
(***************************************************************************)
ReviewNodes == {ReviewNode(Absent)} \cup {ReviewNode(JInt(r)) : r \in 1..5}

InitReviews ==
    InitRun(/\ year = 2024
            /\ \E t \in {ServerError}
                    \cup {HttpResponse(200, ReviewBody(p)) : p \in SeqUpTo(ReviewNodes, MaxReviews)} :
                  upstream = [GoodUpstream EXCEPT !.reviews = t])

SpecReviews == InitReviews /\ [][Next]_vars

ReviewEdges == Iterate(review_edges(review_data)).l

RatingOf(edge) ==
    Get(Get(Get(edge, "node", EmptyObj), "review", EmptyObj), "rating", JInt(0)).n

RECURSIVE SumRatings(_)
SumRatings(edges) ==
    IF edges = <<>> THEN 0 ELSE RatingOf(Head(edges)) + SumRatings(Tail(edges))

\* C6: reviews_written is the number of review edges; average_rating_given
\* is sum(ratings)/reviews_written when there are reviews (a review without
\* a rating counting as 0) and exactly 0.0 when there are none; it lies in
\* [0, 5].
C6_AverageRating ==
    summary # Absent =>
        LET r == summary.reviews
        IN  /\ r.reviews_written = Len(ReviewEdges)
            /\ r.reviews_written > 0 =>
                  FEq(r.average_rating_given,
                      Float(SumRatings(ReviewEdges), r.reviews_written))
            /\ r.reviews_written = 0 => r.average_rating_given = Zero
            /\ FLeq(Zero, r.average_rating_given)
            /\ FLeq(r.average_rating_given, Float(5, 1))

\* three reviews, one of them unrated, whose mean is not a whole number
C6_Witness ==
    /\ summary # Absent
    /\ summary.reviews.reviews_written = 3
    /\ \E i \in 1..3 : RatingOf(ReviewEdges[i]) = 0
    /\ SumRatings(ReviewEdges) % 3 # 0
    /\ FEq(summary.reviews.average_rating_given, Float(SumRatings(ReviewEdges), 3))

(***************************************************************************)
(* SpecWishlists: the wishlist page carries named, unnamed and empty-named *)
(* wishlists.                                                              *)
(***************************************************************************)
WishlistNodes ==
    { WishlistNode(Absent, Absent, Absent),
      WishlistNode(JStr(<<>>), JInt(1), Absent),
      WishlistNode(JStr(Oslo), JInt(2), JInt(1)),
      WishlistNode(JStr(Paris), Absent, JInt(3)) }

InitWishlists ==
    InitRun(/\ year = 2024
            /\ \E t \in {ServerError}
                    \cup {HttpResponse(200, WishlistBody(p)) :
                            p \in SeqUpTo(WishlistNodes, MaxWishlists)} :
                  upstream = [GoodUpstream EXCEPT !.wishlists = t])

SpecWishlists == InitWishlists /\ [][Next]_vars

WishlistEdges == Iterate(wishlist_edges(wishlist_data)).l

NameOf(edge) == Get(Get(edge, "node", EmptyObj), "name", JStr(<<>>))
HasName(edge) == NameOf(edge).s # <<>>

\* the non-empty wishlist names in the order of the response
NonEmptyNames ==
    LET named == SelectSeq(WishlistEdges, HasName)
    IN  [i \in 1..Len(named) |-> NameOf(named[i])]

\* C10: top_destinations has at most 5 entries and at most total_wishlists
\* entries, and it is the prefix, in the order of the response, of the
\* non-empty wishlist names.
C10_TopDestinationsPrefix ==
    summary # Absent =>
        LET w == summary.wishlists
        IN  /\ Len(w.top_destinations) <= 5
            /\ Len(w.top_destinations) <= w.total_wishlists
            /\ w.total_wishlists = Len(WishlistEdges)
            /\ IsPrefix(w.top_destinations, NonEmptyNames)
            /\ Len(w.top_destinations) < 5 =>
                  Len(w.top_destinations) = Len(NonEmptyNames)

\* six named wishlists, the sixth of which differs from the first: the list
\* was truncated
C10_Witness ==
    /\ summary # Absent
    /\ Len(NonEmptyNames) = 6
    /\ NonEmptyNames[1] # NonEmptyNames[6]
    /\ Len(summary.wishlists.top_destinations) = 5
    /\ summary.wishlists.top_destinations[1] = NonEmptyNames[1]

(***************************************************************************)
(* SpecPersonality: the trip page, the review page and the wishlist page   *)
(* vary together.  The stays last 0 (no numberOfNights), 3, 7 and 8        *)
(* nights, so that the average per trip falls below 3, on 3, between 3 and *)
(* 7, on 7 and above 7; an experience is a trip without nights.            *)
(***************************************************************************)
MaxEvents == 2

PersonalityNodes ==
    { StayNode(MidYear, Absent, Absent, Absent, Absent),
      StayNode(MidYear, JInt(3), JStr(Paris), JStr(France), Day(1)),
      StayNode(MidYear, JInt(7), JStr(Oslo), JStr(Norway), Day(2)),
      StayNode(MidYear, JInt(8), JStr(Lyon), JStr(France), Day(3)),
      ExperienceNode(MidYear, JStr(Lyon)) }

RatingNodes == {ReviewNode(JInt(4)), ReviewNode(JInt(5))}

WishlistPages ==
    { <<>>,
      <<WishlistNode(JStr(Oslo), Absent, Absent)>>,
      <<WishlistNode(JStr(Paris), JInt(2), JInt(1))>> }

InitPersonality ==
    InitRun(/\ year = 2024
            /\ \E t \in {ServerError}
                    \cup {HttpResponse(200, TripBody(p)) :
                            p \in SeqUpTo(PersonalityNodes, MaxEvents)},
                  r \in {HttpResponse(200, ReviewBody(p)) :
                            p \in SeqUpTo(RatingNodes, MaxEvents)},
                  w \in {HttpResponse(200, WishlistBody(p)) : p \in WishlistPages} :
                  upstream = [GoodUpstream EXCEPT
                                 !.trips = t, !.reviews = r, !.wishlists = w])

SpecPersonality == InitPersonality /\ [][Next]_vars

PersonalityTypes == {"The Explorer", "The Adventurer", "The Balanced Traveler"}

\* C11: in every summary returned by generate(), travel_personality is
\* absent if and only if trips.total_trips = 0, and when present its
\* personality_type is one of the three types.
C11_PersonalityIffTrips ==
    summary # Absent =>
        /\ summary.trips.total_trips = Len(HandedEdges)
        /\ summary.travel_personality = <<>> <=> summary.trips.total_trips = 0
        /\ summary.travel_personality # <<>> =>
              /\ Len(summary.travel_personality) = 1
              /\ summary.travel_personality[1].personality_type \in PersonalityTypes

\* a summary with trips, none of which has a night, carries a personality
C11_Witness ==
    /\ summary # Absent
    /\ summary.trips.total_trips > 0
    /\ summary.trips.total_nights = 0
    /\ summary.travel_personality # <<>>
    /\ summary.travel_personality[1].personality_type = "The Adventurer"

\* the type the average total_nights / total_trips stands for, the
\* comparisons made on whole numbers
TypeFor(total_nights, total_trips) ==
    IF total_nights > 7 * total_trips THEN "The Explorer"
    ELSE IF total_nights < 3 * total_trips THEN "The Adventurer"
    ELSE "The Balanced Traveler"

BaseTraitOf(personality_type) ==
    CASE personality_type = "The Explorer" -> "Extended stays"
      [] personality_type = "The Adventurer" -> "Quick trips"
      [] personality_type = "The Balanced Traveler" -> "Balanced stays"

\* C12: when total_trips > 0 the type is "The Explorer" for an average
\* total_nights / total_trips strictly above 7, "The Adventurer" for one
\* strictly below 3 and "The Balanced Traveler" otherwise, exactly 3 and
\* exactly 7 included; the first trait is the base trait of the type.  The
\* classification is also checked for every average n / t with t up to
\* MaxEvents + 2 trips and n up to 8 nights per trip.
C12_TypeByAverageNights ==
    /\ (summary # Absent /\ summary.trips.total_trips > 0) =>
          LET p == summary.travel_personality[1]
          IN  /\ p.personality_type =
                    TypeFor(summary.trips.total_nights, summary.trips.total_trips)
              /\ Len(p.traits) >= 1
              /\ p.traits[1] = BaseTraitOf(p.personality_type)
    /\ summary # Absent =>
          \A t \in 1..(MaxEvents + 2) : \A n \in 0..(8 * t + 1) :
              LET p == personality_of(Float(n, t))
              IN  /\ p.personality_type = TypeFor(n, t)
                  /\ p.base = BaseTraitOf(p.personality_type)

\* two stays of 7 nights: the average is exactly 7 and the traveler is
\* balanced
C12_Witness ==
    /\ summary # Absent
    /\ summary.trips.total_trips = 2
    /\ summary.trips.total_nights = 14
    /\ summary.travel_personality[1].personality_type = "The Balanced Traveler"
    /\ summary.travel_personality[1].traits[1] = "Balanced stays"

\* the fixed order of the traits
TraitOrder(base) ==
    <<base, "Experience seeker", "Community contributor", "Positive outlook",
      "Country hopper">>

\* the personality p lists, in the fixed order and once each, its base trait
\* and the later traits whose own condition holds on the three summaries
TraitsAsStated(p, trips, experiences, reviews) ==
    LET order == TraitOrder(BaseTraitOf(p.personality_type))
        t == p.traits
        at(x) == {i \in 1..Len(t) : t[i] = x}
        pos(x) == CHOOSE i \in 1..Len(order) : order[i] = x
        rating == reviews.average_rating_given
    IN  /\ \A i \in 1..Len(t) : \E j \in 1..Len(order) : t[i] = order[j]
        /\ \A i, j \in 1..Len(t) : i < j => pos(t[i]) < pos(t[j])
        /\ at(order[1]) = {1}
        /\ at("Experience seeker") # {} <=>
              experiences.total_experiences > trips.total_trips
        /\ at("Community contributor") # {} <=>
              reviews.reviews_written >= trips.total_trips
        /\ at("Positive outlook") # {} <=> 2 * rating.num >= 9 * rating.den
        /\ at("Country hopper") # {} <=>
              10 * Len(trips.countries_visited) > 8 * trips.total_trips

\* C13: when total_trips > 0 the traits are exactly the subsequence of
\* [base trait, "Experience seeker", "Community contributor", "Positive
\* outlook", "Country hopper"] made of the base trait and of each later trait
\* whose own condition holds, whatever the other conditions: total_experiences
\* / total_trips > 1; reviews_written >= total_trips; average_rating_given >=
\* 4.5; len(countries_visited) > total_trips * 0.8.  No trait appears twice
\* or out of order.  Checked on the summary and, with the nights and the
\* reviews of the summary, for every number of trips up to MaxEvents + 3,
\* of experiences up to one more than that and of countries up to the trips.
C13_TraitsInFixedOrder ==
    (summary # Absent /\ summary.trips.total_trips > 0) =>
        /\ TraitsAsStated(summary.travel_personality[1], summary.trips,
                          summary.experiences, summary.reviews)
        /\ \A t \in 1..(MaxEvents + 3) : \A e \in 0..(t + 1) : \A c \in 0..t :
              LET trips == [summary.trips EXCEPT !.total_trips = t,
                                                 !.countries_visited = Places(c)]
                  experiences == [summary.experiences EXCEPT !.total_experiences = e]
              IN  TraitsAsStated(personality_for(trips, experiences, summary.reviews),
                                 trips, experiences, summary.reviews)

\* a summary whose three later reachable traits all hold
C13_Witness ==
    /\ summary # Absent
    /\ summary.trips.total_trips = 2
    /\ summary.reviews.reviews_written = 2
    /\ FEq(summary.reviews.average_rating_given, Float(9, 2))
    /\ Len(summary.trips.countries_visited) = 2
    /\ summary.travel_personality[1].traits =
          <<"Balanced stays", "Community contributor", "Positive outlook",
            "Country hopper">>

\* the cards of the highlights in their fixed order
HighlightOrder ==
    <<"explored", "nights", "longest", "experiences", "reviews", "wishlists">>

\* whether the summaries open the gate of a card
Gate(card, trips, experiences, reviews, wishlists) ==
    CASE card = "explored" -> trips.total_trips > 0
      [] card = "nights" -> trips.total_nights > 0
      [] card = "longest" -> trips.longest_trip # <<>>
      [] card = "experiences" -> experiences.total_experiences > 0
      [] card = "reviews" -> reviews.reviews_written > 0
      [] card = "wishlists" -> wishlists.total_items_saved > 0

\* the list h holds, once each and in the fixed order, the cards whose gate
\* is open and nothing else
HighlightsAsStated(h, trips, experiences, reviews, wishlists) ==
    LET open == {i \in 1..Len(HighlightOrder) :
                    Gate(HighlightOrder[i], trips, experiences, reviews, wishlists)}
        at(card) == {i \in 1..Len(h) : h[i].line = card}
    IN  /\ Len(h) = Cardinality(open)
        /\ Len(h) <= 6
        /\ open = {} => h = <<>>
        /\ \A i \in 1..Len(HighlightOrder) :
              Cardinality(at(HighlightOrder[i])) = (IF i \in open THEN 1 ELSE 0)
        /\ \A i, j \in open : i < j =>
              \A m \in at(HighlightOrder[i]) : \A n \in at(HighlightOrder[j]) : m < n

\* C14: the highlights hold, in the fixed order and with nothing standing
\* for an omitted line, exactly the lines whose gate holds: countries/cities
\* iff total_trips > 0, nights iff total_nights > 0, longest adventure iff
\* longest_trip is present, experiences iff total_experiences > 0, reviews
\* iff reviews_written > 0, wishlists iff total_items_saved > 0; so at most
\* 6 lines, and none when the six gates fail.  Checked on the summary and,
\* on the summaries of the run with their six gated fields set apart, for
\* each of the 64 ways the gates can stand.
C14_HighlightsGated ==
    summary # Absent =>
        /\ HighlightsAsStated(summary.highlights, summary.trips,
                              summary.experiences, summary.reviews, summary.wishlists)
        /\ \A g \in [1..6 -> 0..1] :
              LET trips == [summary.trips EXCEPT
                               !.total_trips = g[1],
                               !.total_nights = g[2] * MaxEvents,
                               !.longest_trip =
                                   IF g[3] = 1
                                   THEN <<TripDetail(JStr(Paris), MaxEvents, JStr(<<>>))>>
                                   ELSE <<>>]
                  experiences == [summary.experiences EXCEPT !.total_experiences = g[4]]
                  reviews == [summary.reviews EXCEPT !.reviews_written = g[5]]
                  wishlists == [summary.wishlists EXCEPT !.total_items_saved = g[6]]
              IN  HighlightsAsStated(
                      generate_highlights(trips, experiences, reviews, wishlists),
                      trips, experiences, reviews, wishlists)

\* trips without a night: the first line is there, the nights line and the
\* longest adventure are left out, and the lines after them follow at once
C14_Witness ==
    /\ summary # Absent
    /\ summary.trips.total_trips > 0
    /\ summary.trips.total_nights = 0
    /\ summary.reviews.reviews_written > 0
    /\ summary.wishlists.total_items_saved > 0
    /\ Len(summary.highlights) >= 3
    /\ summary.highlights[1].line = "explored"
    /\ summary.highlights[2].line \in {"experiences", "reviews"}
    /\ summary.highlights[Len(summary.highlights)].line = "wishlists"

\* the EXPERIENCE events among the edges
Experiences(edges) == {i \in 1..Len(edges) : IsExperience(edges[i])}

\* C15: in every summary produced by generate() the traits never contain
\* "Experience seeker": both summaries are computed from the same edges, so
\* total_experiences <= total_trips and the ratio total_experiences /
\* total_trips is never strictly greater than 1.
C15_NeverExperienceSeeker ==
    summary # Absent =>
        /\ summary.experiences.total_experiences = Cardinality(Experiences(HandedEdges))
        /\ summary.trips.total_trips = Len(HandedEdges)
        /\ summary.experiences.total_experiences <= summary.trips.total_trips
        /\ summary.travel_personality # <<>> =>
              \A i \in 1..Len(summary.travel_personality[1].traits) :
                  summary.travel_personality[1].traits[i] # "Experience seeker"

\* every event of the page is an experience: the ratio is exactly 1 and the
\* trait is not given
C15_Witness ==
    /\ summary # Absent
    /\ summary.trips.total_trips = MaxEvents
    /\ summary.experiences.total_experiences = summary.trips.total_trips
    /\ summary.travel_personality # <<>>
    /\ \A i \in 1..Len(summary.travel_personality[1].traits) :
          summary.travel_personality[1].traits[i] # "Experience seeker"

====
